---- MODULE Spec2Model ----
(***************************************************************************)
(* Model of the r/place analysis scripts: PolarsPlace.analyze_rplace,      *)
(* botdetector.detect_bots and botnet_detector.detect_coordinated_botnets  *)
(* with its zone builder build_dynamic_zones.  Each script is one process  *)
(* that reads the event store (the parquet file) and prints a report.     *)
(* Data frames are sequences or sets of rows; columns keep their source   *)
(* names.                                                                  *)
(***************************************************************************)
EXTENDS Integers, Sequences, FiniteSets, TLC

VARIABLES store, attacks, pc, args, win, stats, printed, bots, bursts, zones,
          report

vars == <<store, attacks, pc, args, win, stats, printed, bots, bursts, zones,
          report>>

(***************************************************************************)
(* Bounds of the model and program constants.                              *)
(***************************************************************************)
MaxEvents == 4
MaxAttacks == 4
MaxTimedEvents == 12
MaxQuietEvents == 10
MaxHourlyEvents == 25
MaxSkips == 2
MaxMoveEvents == 26
MaxOtherMoves == 1
MaxBoxEvents == 12
MaxSpreadMoves == 7
MaxPaintedEvents == 12
MaxOtherColors == 1
MaxPairEvents == 2
MaxContainedEvents == 12
MaxSlowSteps == 1
MaxZigZagEvents == 15
MaxBystanderEvents == 5
BackgroundCells == 84
MaxPerCell == 3
MaxCrowds == 6
MaxCrewAttacks == 3
MaxBareEvents == 11
MaxSlicedEvents == 5
MaxTiedEvents == 12

SESSION_GAP == 900
MIN_PIXELS == 10
STREAK_HOURS == 24
BOX_RANGE == 3
ATTACK_GAP_SECONDS == 150
DENSITY_THRESHOLD == 50
FIRST_GAP_FILL == 9999
RPLACE_WIDTH == 2000
RPLACE_HEIGHT == 2000
\* ZONE_PERCENTILE = 0.97, in hundredths
ZONE_PERCENTILE == 97
TOP_LIMIT == 10

Users == {1, 2}
Times == {950, 1850, 1851, 2752, 4550}
Hours == {12, 13, 14, 15, 24}
DateStrs == [day : {1}, hour : Hours]

(***************************************************************************)
(* Generic helpers over sequences and sets of integers.                    *)
(***************************************************************************)
Front(s) == SubSeq(s, 1, Len(s) - 1)

RECURSIVE MaxFrom(_, _)
MaxFrom(S, m) ==
    IF S = {} THEN m
    ELSE LET x == CHOOSE y \in S : TRUE
         IN  MaxFrom(S \ {x}, IF x > m THEN x ELSE m)

SetMax(S) == LET x == CHOOSE y \in S : TRUE IN MaxFrom(S \ {x}, x)

SetMin(S) == -SetMax({-y : y \in S})

Abs(n) == IF n < 0 THEN -n ELSE n

(***************************************************************************)
(* Frames.  sort([k1, k2]) is modelled as a stable insertion sort on the   *)
(* pair of key columns; a keyed row is <<<<k1, k2>>, row>>.                *)
(***************************************************************************)
KeyLE(a, b) == a[1] < b[1] \/ (a[1] = b[1] /\ a[2] <= b[2])

InsertKeyed(kr, s) ==
    LET k == Cardinality({i \in 1..Len(s) : KeyLE(s[i][1], kr[1])})
    IN  SubSeq(s, 1, k) \o <<kr>> \o SubSeq(s, k + 1, Len(s))

RECURSIVE SortKeyed(_)
SortKeyed(krows) ==
    IF krows = <<>> THEN <<>>
    ELSE InsertKeyed(krows[Len(krows)], SortKeyed(Front(krows)))

Unkey(krows) == [i \in 1..Len(krows) |-> krows[i][2]]

UserTimeLE(a, b) ==
    KeyLE(<<a.user_id_int, a.seconds_since_start>>,
          <<b.user_id_int, b.seconds_since_start>>)

\* sort(["user_id_int", "seconds_since_start"])
SortUserTime(rows) ==
    Unkey(SortKeyed([i \in 1..Len(rows) |->
        <<<<rows[i].user_id_int, rows[i].seconds_since_start>>, rows[i]>>]))

\* sort(["zone_id", "seconds_since_start"])
AsCollected(rows) == rows

SortZoneTime(rows) ==
    Unkey(SortKeyed([i \in 1..Len(rows) |->
        <<<<rows[i].zone_id, rows[i].seconds_since_start>>, rows[i]>>]))

UsersOf(rows) == {rows[i].user_id_int : i \in 1..Len(rows)}

RowsOfUser(rows, u) == SelectSeq(rows, LAMBDA r : r.user_id_int = u)

(***************************************************************************)
(* analyze_rplace: argument parsing and validation.                        *)
(* A date string "2022-04-DD HH" is the record [day, hour]; strptime       *)
(* raises ValueError when the hour is not in 0..23 or the day not in 1..30.*)
(***************************************************************************)
EventStartSec == 12 * 3600 + 44 * 60 + 10

Parses(s) == s.day \in 1..30 /\ s.hour \in 0..23

StrpTime(s) == (s.day - 1) * 86400 + s.hour * 3600

ToSec(dt) == dt - EventStartSec

StartTooEarlyByHour(start_dt) == start_dt < 12 * 3600

StartTooEarly(start_dt) == start_dt < EventStartSec

EndBeforeStart(start_dt, end_dt) == end_dt < start_dt

NoWin == <<>>
NoArgs == <<>>
NoStats == <<>>
NoBots == <<>>
NoBursts == <<>>
NoZones == <<>>
NoReport == <<>>

(***************************************************************************)
(* analyze_rplace: the statistics.                                         *)
(***************************************************************************)
InWindowOrSliced(w, r) ==
    /\ r.seconds_since_start >= w.start_sec - 900
    /\ r.seconds_since_start < w.end_sec

InWindow(w, r) ==
    /\ r.seconds_since_start >= w.start_sec
    /\ r.seconds_since_start < w.end_sec

Window(rows, w) == SelectSeq(rows, LAMBDA r : InWindow(w, r))

\* group_by("color_name").agg(user_id_int.n_unique()): one row per colour.
ColorRanking(rows) ==
    {[color_name |-> c,
      user_count |-> Cardinality({rows[i].user_id_int :
                        i \in {j \in 1..Len(rows) : rows[j].color_name = c}})]
       : c \in {rows[i].color_name : i \in 1..Len(rows)}}

\* shift(1) without a partition: the previous row of the frame.
PrevRow(keys, i) == i - 1

\* shift(1).over(key): index of the previous row of the same partition,
\* 0 when the row is the first of its partition (a null).  keys[i] is the
\* value of the partition column in row i.
RECURSIVE ScanBack(_, _, _)
ScanBack(keys, k, j) ==
    IF j = 0 THEN 0
    ELSE IF keys[j] = k THEN j
    ELSE ScanBack(keys, k, j - 1)

PrevOver(keys, i) == ScanBack(keys, keys[i], i - 1)

\* (t - t.shift(1)).over(key).fill_null(fill)
DiffOver(f, keys, i, fill) ==
    LET p == PrevOver(keys, i)
    IN  IF p = 0 THEN fill
        ELSE f[i].seconds_since_start - f[p].seconds_since_start

\* cond.cum_sum().over(key): the number of rows of the partition, up to and
\* including row i, where cond holds.
CumSumOver(cond, keys, i) ==
    Cardinality({j \in 1..i : keys[j] = keys[i] /\ cond[j]})

NewSessionAtGap(diff) == diff >= SESSION_GAP

NewSession(diff) == diff > SESSION_GAP

\* (diff > 900).cast(Int32).cum_sum().over("user_id_int")
SessionIds(f) ==
    LET keys == [i \in 1..Len(f) |-> f[i].user_id_int]
        diff == [i \in 1..Len(f) |-> DiffOver(f, keys, i, 0)]
        cond == [i \in 1..Len(f) |-> NewSession(diff[i])]
    IN  [i \in 1..Len(f) |-> CumSumOver(cond, keys, i)]

\* sort + with_columns: the window frame with its session_id column.
SessionFrame(rows) ==
    LET f == SortUserTime(rows)
        ids == SessionIds(f)
    IN  [i \in 1..Len(f) |->
            [user_id_int |-> f[i].user_id_int,
             seconds_since_start |-> f[i].seconds_since_start,
             session_id |-> ids[i]]]

\* group_by(["user_id_int", "session_id"]).agg(dur, p_count)
SessionGroups(sf) ==
    {[user_id_int |-> k[1], session_id |-> k[2],
      dur |-> LET ts == {sf[i].seconds_since_start :
                           i \in {j \in 1..Len(sf) :
                                    /\ sf[j].user_id_int = k[1]
                                    /\ sf[j].session_id = k[2]}}
              IN  SetMax(ts) - SetMin(ts),
      p_count |-> Cardinality({j \in 1..Len(sf) :
                                 /\ sf[j].user_id_int = k[1]
                                 /\ sf[j].session_id = k[2]})]
       : k \in {<<sf[i].user_id_int, sf[i].session_id>> : i \in 1..Len(sf)}}

KeepSessionAny(g) == g.p_count >= 1

KeepSession(g) == g.p_count > 1

RECURSIVE SumDur(_)
SumDur(G) == IF G = {} THEN 0
             ELSE LET g == CHOOSE h \in G : TRUE IN g.dur + SumDur(G \ {g})

\* filter(p_count > 1).select(dur.mean()): the select always yields one row;
\* its value is sum/n, and null (n = 0) when no group survives the filter.
SessionData(groups) ==
    LET kept == {g \in groups : KeepSession(g)}
    IN  [height |-> 1, sum |-> SumDur(kept), n |-> Cardinality(kept)]

IsNull(m) == m.n = 0

\* avg_session = session_data.item() if session_data.height > 0 else 0
AvgSession(sd) == IF sd.height > 0 THEN [sum |-> sd.sum, n |-> sd.n]
                  ELSE [sum |-> 0, n |-> 1]

\* lf.group_by(user).agg(min t).filter(first in window).select(len())
FirstTimeCount(rows, w) ==
    Cardinality({u \in UsersOf(rows) :
        LET first == SetMin({rows[i].seconds_since_start :
                       i \in {j \in 1..Len(rows) : rows[j].user_id_int = u}})
        IN  first >= w.start_sec /\ first < w.end_sec})

PixelCounts(rows) ==
    {[user_id_int |-> u, count |-> Len(RowsOfUser(rows, u))] : u \in UsersOf(rows)}

\* f"{avg_session:.2f}" raises TypeError when avg_session is None.
FormatRaises(avg) == IsNull(avg)

(***************************************************************************)
(* The event store and the processes.                                      *)
(***************************************************************************)
Event(u, t, x, y, c) ==
    [user_id_int |-> u, seconds_since_start |-> t, x |-> x, y |-> y,
     color_name |-> c]

\* preprocess.py writes the file sorted by (user_id_int, seconds_since_start).
KeepsFileOrder(rows, e) ==
    IF rows = <<>> THEN TRUE ELSE UserTimeLE(rows[Len(rows)], e)

Init ==
    /\ store = <<>>
    /\ attacks = <<>>
    /\ pc = "load"
    /\ args = NoArgs
    /\ win = NoWin
    /\ stats = NoStats
    /\ printed = <<>>
    /\ bots = NoBots
    /\ bursts = NoBursts
    /\ zones = NoZones
    /\ report = NoReport

LoadEvent ==
    /\ pc = "load"
    /\ attacks = <<>>
    /\ Len(store) < MaxEvents
    /\ \E u \in Users, t \in Times :
          /\ KeepsFileOrder(store, Event(u, t, 0, 0, "red"))
          /\ store' = Append(store, Event(u, t, 0, 0, "red"))
    /\ UNCHANGED <<attacks, pc, args, win, stats, printed, bots, bursts, zones, report>>

\* analyze_rplace, lines 10-28: parse and validate the two date strings.
Validate(start_str, end_str) ==
    IF ~Parses(start_str) \/ ~Parses(end_str)
    THEN [ok |-> FALSE, msg |-> "Error parsing input dates", w |-> NoWin]
    ELSE LET start_dt == StrpTime(start_str)
             end_dt == StrpTime(end_str)
         IN  IF StartTooEarly(start_dt)
             THEN [ok |-> FALSE, msg |-> "Choose a start date after the event start",
                   w |-> NoWin]
             ELSE IF EndBeforeStart(start_dt, end_dt)
             THEN [ok |-> FALSE, msg |-> "Usage", w |-> NoWin]
             ELSE [ok |-> TRUE, msg |-> "",
                   w |-> <<[start_sec |-> ToSec(start_dt),
                            end_sec |-> ToSec(end_dt)]>>]

ParseArgs ==
    /\ pc = "load"
    /\ attacks = <<>>
    /\ \E s \in DateStrs, e \in DateStrs :
          LET v == Validate(s, e)
          IN  /\ args' = <<[start_str |-> s, end_str |-> e]>>
              /\ win' = v.w
              /\ pc' = IF v.ok THEN "validated" ELSE "rejected"
              /\ printed' = IF v.ok THEN printed ELSE Append(printed, v.msg)
    /\ UNCHANGED <<store, attacks, stats, bots, bursts, zones, report>>

\* analyze_rplace, lines 32-127: scan the file and compute the statistics.
ComputeStats ==
    /\ pc = "validated"
    /\ LET df_window == Window(store, win[1])
           color_ranking == ColorRanking(df_window)
       IN  IF Cardinality(color_ranking) = 0
           THEN /\ printed' = Append(printed, "No Data found in given timeframe")
                /\ pc' = "nodata"
                /\ stats' = NoStats
           ELSE LET sf == SessionFrame(df_window)
                    sd == SessionData(SessionGroups(sf))
                IN  /\ stats' = <<[color_ranking |-> color_ranking,
                                   session_frame |-> sf,
                                   session_groups |-> SessionGroups(sf),
                                   session_data |-> sd,
                                   avg_session |-> AvgSession(sd),
                                   pixel_counts |-> PixelCounts(df_window),
                                   first_time_count |-> FirstTimeCount(store, win[1])]>>
                    /\ pc' = "computed"
                    /\ printed' = printed
    /\ UNCHANGED <<store, attacks, args, win, bots, bursts, zones, report>>

\* analyze_rplace, lines 129-148: print the report; an exception raised by a
\* print is caught by the enclosing except and reported.
PrintReport ==
    /\ pc = "computed"
    /\ IF FormatRaises(stats[1].avg_session)
       THEN /\ printed' = printed \o <<"Final Results", "Ranking of Colors",
                                       "An unexpected error occurred">>
            /\ pc' = "error"
       ELSE /\ printed' = printed \o <<"Final Results", "Ranking of Colors",
                                       "Average Session Length", "Percentiles",
                                       "Count of First-time Users">>
            /\ pc' = "reported"
    /\ UNCHANGED <<store, attacks, args, win, stats, bots, bursts, zones, report>>

Next == LoadEvent \/ ParseArgs \/ ComputeStats \/ PrintReport

Spec == Init /\ [][Next]_vars

(***************************************************************************)
(* Burst clustering of detect_coordinated_botnets.  attacks is attacks_df, *)
(* the (zone_id, second) groups whose density exceeds DENSITY_THRESHOLD,   *)
(* in the order the group_by produced them.                                *)
(***************************************************************************)
\* Times on both sides of the window bounds 4550 (13:00 and 14:00 windows).
SliceTimes == {4000, 4549, 4550, 4600, 5500, 5501}
AttackTimes == {0, 150, 151, 301}
Zones == {1, 2}

AttackRow(z, t, d, us) ==
    [zone_id |-> z, seconds_since_start |-> t, zone_density |-> d,
     user_id_int |-> us]

NewBurstAtGap(time_diff) == time_diff >= ATTACK_GAP_SECONDS

\* pl.col("time_diff") > ATTACK_GAP_SECONDS
NewBurst(time_diff) == time_diff > ATTACK_GAP_SECONDS

\* The ids with the first row's gap filled with 0, as the sessions fill it.
BurstIdsZeroFill(f) ==
    LET keys == [i \in 1..Len(f) |-> f[i].zone_id]
        diff == [i \in 1..Len(f) |-> DiffOver(f, keys, i, 0)]
        cond == [i \in 1..Len(f) |-> NewBurst(diff[i])]
    IN  [i \in 1..Len(f) |-> CumSumOver(cond, keys, i)]

\* sort + time_diff.fill_null(9999) + (time_diff > gap).cum_sum().over(zone)
BurstIds(f) ==
    LET keys == [i \in 1..Len(f) |-> f[i].zone_id]
        diff == [i \in 1..Len(f) |-> DiffOver(f, keys, i, FIRST_GAP_FILL)]
        cond == [i \in 1..Len(f) |-> NewBurst(diff[i])]
    IN  [i \in 1..Len(f) |-> CumSumOver(cond, keys, i)]

CoordinatedEvents(rows) ==
    LET f == SortZoneTime(rows)
        ids == BurstIds(f)
    IN  [i \in 1..Len(f) |->
            [zone_id |-> f[i].zone_id,
             seconds_since_start |-> f[i].seconds_since_start,
             zone_density |-> f[i].zone_density,
             user_id_int |-> f[i].user_id_int,
             burst_id |-> ids[i],
             unique_event_id |-> <<f[i].zone_id, ids[i]>>]]

\* The user list of an attack-second: users first, first + 1, ...
Crew(first, n) == [i \in 1..n |-> first + i - 1]

\* attacks_df as collected at line 87, for a zone map of the zones in Zones.
LoadAttack ==
    /\ pc \in {"load", "joined"}
    /\ store = <<>>
    /\ Len(attacks) < MaxAttacks
    /\ \E z \in Zones, t \in AttackTimes :
          /\ \A i \in 1..Len(attacks) :
                <<attacks[i].zone_id, attacks[i].seconds_since_start>> /= <<z, t>>
          /\ attacks' = Append(attacks,
                AttackRow(z, t, DENSITY_THRESHOLD + 1, Crew(1, DENSITY_THRESHOLD + 1)))
    /\ pc' = "joined"
    /\ UNCHANGED <<store, args, win, stats, printed, bots, bursts, zones, report>>

\* detect_coordinated_botnets, lines 89-112.
ClusterBursts ==
    /\ pc = "joined"
    /\ IF Len(attacks) = 0
       THEN /\ printed' = Append(printed, "No botnet bursts found with current thresholds.")
            /\ pc' = "nobursts"
            /\ bursts' = NoBursts
       ELSE /\ bursts' = <<CoordinatedEvents(attacks)>>
            /\ pc' = "clustered"
            /\ printed' = Append(printed, "Found high-density seconds")
    /\ UNCHANGED <<store, attacks, args, win, stats, bots, zones, report>>

NextGap == Next \/ LoadAttack \/ ClusterBursts

SpecGap == Init /\ [][NextGap]_vars

(***************************************************************************)
(* detect_bots: the five per-user classifiers.                             *)
(***************************************************************************)
MinActivityAtLeast(n) == n >= MIN_PIXELS

\* p2.len().over("user_id_int") > 10
MinActivity(n) == n > MIN_PIXELS

AllRows(rows) == rows

\* lf.filter(len().over(user) > 10)
ActiveRows(rows) ==
    LET count == [u \in UsersOf(rows) |-> Len(RowsOfUser(rows, u))]
    IN  SelectSeq(rows, LAMBDA r : MinActivity(count[r.user_id_int]))

\* A nullable value is <<>> (null) or <<v>>.
Null == <<>>

\* (col - col.shift(1)).over("user_id_int"), null on a partition's first row.
ShiftDiff(vals, keys, i) ==
    LET p == PrevOver(keys, i)
    IN  IF p = 0 THEN Null ELSE <<vals[i] - vals[p]>>

RECURSIVE SumNonNull(_)
SumNonNull(vals) ==
    IF vals = <<>> THEN 0
    ELSE (IF vals[1] = Null THEN 0 ELSE vals[1][1]) + SumNonNull(Tail(vals))

RECURSIVE SumSqNonNull(_)
SumSqNonNull(vals) ==
    IF vals = <<>> THEN 0
    ELSE (IF vals[1] = Null THEN 0 ELSE vals[1][1] * vals[1][1])
            + SumSqNonNull(Tail(vals))

CountNonNull(vals) == Cardinality({i \in 1..Len(vals) : vals[i] /= Null})

\* The column of one partition: the values of the rows whose key is k.
ColumnOf(vals, keys, k) ==
    LET idx == {i \in 1..Len(vals) : keys[i] = k}
        RECURSIVE Pick(_)
        Pick(I) == IF I = {} THEN <<>>
                   ELSE LET m == SetMin(I) IN <<vals[m]>> \o Pick(I \ {m})
    IN  Pick(idx)

\* n * sum(d^2) - sum(d)^2 for the non-null values of vals, computed on the
\* values less their minimum (the expression is invariant under a shift),
\* which keeps the products within 32-bit integers.
NonNull(vals) == {vals[i][1] : i \in {j \in 1..Len(vals) : vals[j] /= Null}}

Shifted(vals) ==
    [i \in 1..Len(vals) |->
        IF vals[i] = Null THEN Null ELSE <<vals[i][1] - SetMin(NonNull(vals))>>]

Spread(vals) == SetMax(NonNull(vals)) - SetMin(NonNull(vals))

ScaledVariance(vals) ==
    LET sh == Shifted(vals)
    IN  CountNonNull(vals) * SumSqNonNull(sh) - SumNonNull(sh) * SumNonNull(sh)

\* The deviation with ddof = 0 (divisor n).
StdLessThanOnePopulation(vals) ==
    LET n == CountNonNull(vals)
    IN  IF n < 1 THEN FALSE
        ELSE IF Spread(vals) * Spread(vals) >= n * n THEN FALSE
        ELSE ScaledVariance(vals) < n * n

\* col.std() < 1: the standard deviation with ddof = 1 (divisor n - 1) of the
\* non-null values, null (and so filtered out) when fewer than two remain.
\* std < 1  <=>  n * sum(d^2) - sum(d)^2 < n * (n - 1); the left side is the
\* sum of (d_i - d_j)^2 over all pairs, so it is at least Spread^2.
StdLessThanOne(vals) ==
    LET n == CountNonNull(vals)
    IN  IF n < 2 THEN FALSE
        ELSE IF Spread(vals) * Spread(vals) >= n * (n - 1) THEN FALSE
        ELSE ScaledVariance(vals) < n * (n - 1)

\* no_time_deviation, lines 25-37.
NoTimeDeviation(df) ==
    LET f == SortUserTime(df)
        keys == [i \in 1..Len(f) |-> f[i].user_id_int]
        ts == [i \in 1..Len(f) |-> f[i].seconds_since_start]
        time_diff == [i \in 1..Len(f) |-> ShiftDiff(ts, keys, i)]
    IN  {u \in UsersOf(f) : StdLessThanOne(ColumnOf(time_diff, keys, u))}

\* (seconds_since_start / 3600).cast(Int32): true division, then a cast that
\* truncates toward zero.
HourId(t) == IF t >= 0 THEN t \div 3600 ELSE -((-t) \div 3600)

LongStreakOver(n) == n > STREAK_HOURS

LongStreak(n) == n >= STREAK_HOURS

\* no_sleep, lines 42-62: unique (user, hour_id) rows, sorted; streak_id is
\* hour_id minus the running count of the user's rows.
NoSleep(df) ==
    LET hours == {<<df[i].user_id_int, HourId(df[i].seconds_since_start)>> :
                    i \in 1..Len(df)}
        cum_count(r) == Cardinality({q \in hours : q[1] = r[1] /\ q[2] <= r[2]})
        \* rows <<user_id_int, hour_id, streak_id>>
        streaks == {<<r[1], r[2], r[2] - cum_count(r)>> : r \in hours}
        streak_length(u, sid) ==
            Cardinality({q \in streaks : q[1] = u /\ q[3] = sid})
    IN  {u \in UsersOf(df) :
            \E q \in streaks : q[1] = u /\ LongStreak(streak_length(u, q[3]))}

\* ((dx.abs() == 1) & (dy == 0) | (dx == 0) & (dy.abs() == 1)).cast(Int32):
\* null when dx and dy are null.
IsLinear(dx, dy) ==
    IF dx = Null \/ dy = Null THEN Null
    ELSE IF \/ (Abs(dx[1]) = 1 /\ dy[1] = 0)
            \/ (dx[1] = 0 /\ Abs(dy[1]) = 1)
         THEN <<1>> ELSE <<0>>

MeanNullAsZero(vals) == [sum |-> SumNonNull(vals), n |-> Len(vals)]

\* col.mean(): the mean of the non-null values, sum / n; null when n = 0.
Mean(vals) == [sum |-> SumNonNull(vals), n |-> CountNonNull(vals)]

AboveThresholdOrEqual(m) == m.n > 0 /\ 100 * m.sum >= 95 * m.n

\* linearity_score > 0.95
AboveThreshold(m) == m.n > 0 /\ 100 * m.sum > 95 * m.n

\* group_by(user).agg(is_linear.mean()), lines 66-78.
LinearityScores(df) ==
    LET f == SortUserTime(df)
        keys == [i \in 1..Len(f) |-> f[i].user_id_int]
        xs == [i \in 1..Len(f) |-> f[i].x]
        ys == [i \in 1..Len(f) |-> f[i].y]
        is_linear == [i \in 1..Len(f) |->
                        IsLinear(ShiftDiff(xs, keys, i), ShiftDiff(ys, keys, i))]
    IN  [u \in UsersOf(f) |-> Mean(ColumnOf(is_linear, keys, u))]

\* linear_placement, line 79.
LinearPlacement(scores) == {u \in DOMAIN scores : AboveThreshold(scores[u])}

InBoxStrict(x_range, y_range) == x_range < BOX_RANGE /\ y_range < BOX_RANGE

\* (x_range <= 3) & (y_range <= 3)
InBox(x_range, y_range) == x_range <= BOX_RANGE /\ y_range <= BOX_RANGE

\* low_coordinate_deviation, lines 86-94.
LowCoordinateDeviation(df) ==
    {u \in UsersOf(df) :
        LET mine == RowsOfUser(df, u)
            xs == {mine[i].x : i \in 1..Len(mine)}
            ys == {mine[i].y : i \in 1..Len(mine)}
        IN  InBox(SetMax(xs) - SetMin(xs), SetMax(ys) - SetMin(ys))}

AnyColors(unique_colors) == unique_colors >= 1

\* unique_colors == 1
SingleColor(unique_colors) == unique_colors = 1

\* mono_chromatic, lines 98-103.
MonoChromatic(df) ==
    {u \in UsersOf(df) :
        LET mine == RowsOfUser(df, u)
        IN  SingleColor(Cardinality({mine[i].color_name : i \in 1..Len(mine)}))}

\* The columns a classifier reads; collecting a frame that names a column
\* the file does not hold raises ColumnNotFoundError.
ClassifierColumns ==
    [no_time_deviation |-> {"user_id_int", "seconds_since_start"},
     no_sleep |-> {"user_id_int", "seconds_since_start"},
     linear_placement |-> {"user_id_int", "seconds_since_start", "x", "y"},
     low_coordinate_deviation |-> {"user_id_int", "x", "y"},
     mono_chromatic |-> {"user_id_int", "color_name"}]

Columns(rows) ==
    IF rows = <<>>
    THEN {"user_id_int", "seconds_since_start", "x", "y", "color_name"}
    ELSE DOMAIN rows[1]

Fails(rows, k) == ~(ClassifierColumns[k] \subseteq Columns(rows))

\* The frames of the classifiers that do not fail on rows.
Classify(rows) ==
    LET df_window == ActiveRows(rows)
        scores == IF Fails(rows, "linear_placement") THEN <<>>
                  ELSE LinearityScores(df_window)
    IN  [users |-> UsersOf(df_window),
         no_time_deviation |->
             IF Fails(rows, "no_time_deviation") THEN {}
             ELSE NoTimeDeviation(df_window),
         no_sleep |-> IF Fails(rows, "no_sleep") THEN {} ELSE NoSleep(df_window),
         linearity_score |-> scores,
         linear_placement |->
             IF Fails(rows, "linear_placement") THEN {}
             ELSE LinearPlacement(scores),
         low_coordinate_deviation |->
             IF Fails(rows, "low_coordinate_deviation") THEN {}
             ELSE LowCoordinateDeviation(df_window),
         mono_chromatic |->
             IF Fails(rows, "mono_chromatic") THEN {} ELSE MonoChromatic(df_window)]

KeepComputed(computed) == <<computed>>

\* except Exception (lines 116-117): the frames computed so far are dropped,
\* only the error is printed.
Caught(computed) == NoBots

\* detect_bots, lines 14-117: the five frames and the printed counts, all
\* inside one try.
DetectBots ==
    /\ pc = "load"
    /\ attacks = <<>>
    /\ IF \E k \in DOMAIN ClassifierColumns : Fails(store, k)
       THEN /\ bots' = Caught(Classify(store))
            /\ printed' = Append(printed, "An unexpected error occurred")
            /\ pc' = "error"
       ELSE /\ bots' = <<Classify(store)>>
            /\ printed' = printed \o
                 <<"Analysis excludes users with fewer than 10 pixel placements",
                   "Number of users with little time variance",
                   "Number of users with 24+ hours of consecutive activity",
                   "Number of users with strictly linear placements",
                   "Number of users who placed pixels in few coordinates",
                   "Number of users who only placed a single color">>
            /\ pc' = "bots_reported"
    /\ UNCHANGED <<store, attacks, args, win, stats, bursts, zones, report>>

(***************************************************************************)
(* Event logs for detect_bots.  A user's next event follows the user's     *)
(* last one by dt seconds and by the move mv; the first is at second 0 on  *)
(* cell (10, 10).  Unit moves walk around a square of side 1.              *)
(***************************************************************************)
CountOf(u) == Len(RowsOfUser(store, u))

LastOf(u) == LET mine == RowsOfUser(store, u) IN mine[Len(mine)]

CycleMove(k) ==
    CASE k % 4 = 1 -> <<1, 0>>
      [] k % 4 = 2 -> <<0, 1>>
      [] k % 4 = 3 -> <<-1, 0>>
      [] OTHER -> <<0, -1>>

NextEvent(u, dt, mv, c) ==
    IF CountOf(u) = 0 THEN Event(u, 0, 10, 10, c)
    ELSE Event(u, LastOf(u).seconds_since_start + dt,
               LastOf(u).x + mv[1], LastOf(u).y + mv[2], c)

AppendFor(u, dt, mv, c) ==
    /\ pc = "load"
    /\ attacks = <<>>
    /\ KeepsFileOrder(store, NextEvent(u, dt, mv, c))
    /\ store' = Append(store, NextEvent(u, dt, mv, c))
    /\ UNCHANGED <<attacks, pc, args, win, stats, printed, bots, bursts, zones, report>>

\* Consecutive time steps and moves of user u in the store.
StepsOf(u) ==
    LET mine == RowsOfUser(store, u)
    IN  [i \in 1..(Len(mine) - 1) |->
            [dt |-> mine[i + 1].seconds_since_start - mine[i].seconds_since_start,
             dx |-> mine[i + 1].x - mine[i].x,
             dy |-> mine[i + 1].y - mine[i].y]]

CountSteps(u, P(_)) ==
    LET st == StepsOf(u) IN Cardinality({i \in 1..Len(st) : P(st[i])})

\* Timing logs: user 1 steps by 1 or 3 seconds; user 2 is a short regular log.
AddTimed ==
    /\ CountOf(1) < MaxTimedEvents
    /\ \E dt \in {1, 3} :
          /\ (CountOf(1) = 0 => dt = 1)
          /\ AppendFor(1, dt, CycleMove(CountOf(1)), "red")

AddQuiet ==
    /\ CountOf(2) < MaxQuietEvents
    /\ AppendFor(2, 1, CycleMove(CountOf(2)), "red")

NextTiming == AddTimed \/ AddQuiet \/ DetectBots

SpecTiming == Init /\ [][NextTiming]_vars

\* Hourly logs: one event an hour, with a bounded number of skipped hours;
\* the second event may fall in the first event's hour.
AddHourly ==
    /\ CountOf(1) < MaxHourlyEvents
    /\ \E dt \in {1800, 3600, 7200} :
          /\ (CountOf(1) = 0 => dt = 3600)
          /\ (dt = 7200 => CountSteps(1, LAMBDA st : st.dt = 7200) < MaxSkips)
          /\ (dt = 1800 => CountOf(1) = 1)
          /\ AppendFor(1, dt, CycleMove(CountOf(1)), "red")

NextStreak == AddHourly \/ DetectBots

SpecStreak == Init /\ [][NextStreak]_vars

\* Movement logs: unit moves around the square, with a bounded number of
\* moves that are not unit moves.
OtherMoves == {<<0, 0>>, <<1, 1>>}

AddMove ==
    /\ CountOf(1) < MaxMoveEvents
    /\ \E mv \in {CycleMove(CountOf(1))} \cup OtherMoves :
          /\ (CountOf(1) = 0 => mv = CycleMove(0))
          /\ (mv \in OtherMoves =>
                CountSteps(1, LAMBDA st : <<st.dx, st.dy>> \in OtherMoves) < MaxOtherMoves)
          /\ AppendFor(1, 1, mv, "red")

NextLinear == AddMove \/ DetectBots

SpecLinear == Init /\ [][NextLinear]_vars

\* Spread logs: the user first walks right or up, then stays on the cell
\* reached.
SpreadMoves == {<<1, 0>>, <<0, 1>>}

AddBoxed ==
    /\ CountOf(1) < MaxBoxEvents
    /\ \E mv \in SpreadMoves \cup {<<0, 0>>} :
          /\ (CountOf(1) = 0 => mv = <<0, 0>>)
          /\ (mv \in SpreadMoves =>
                /\ CountOf(1) - 1 < MaxSpreadMoves
                /\ CountSteps(1, LAMBDA st : <<st.dx, st.dy>> = <<0, 0>>) = 0)
          /\ AppendFor(1, 1, mv, "red")

NextBox == AddBoxed \/ DetectBots

SpecBox == Init /\ [][NextBox]_vars

\* Colour logs: user 1 places red with a bounded number of blue events;
\* user 2 is a short log of one colour.
Colors == {"red", "blue"}

ColorCount(u, c) ==
    LET mine == RowsOfUser(store, u)
    IN  Cardinality({i \in 1..Len(mine) : mine[i].color_name = c})

AddPainted ==
    /\ CountOf(1) < MaxPaintedEvents
    /\ \E c \in Colors :
          /\ (c = "blue" => ColorCount(1, "blue") < MaxOtherColors)
          /\ AppendFor(1, 1, CycleMove(CountOf(1)), c)

AddPair ==
    /\ CountOf(2) < MaxPairEvents
    /\ AppendFor(2, 1, <<1, 0>>, "red")

NextColor == AddPainted \/ AddPair \/ DetectBots

SpecColor == Init /\ [][NextColor]_vars

\* Scenario logs: user 1 moves along the diagonal of a 3x3 box, one second
\* apart but for a bounded number of slow steps; user 2 climbs a staircase of
\* unit moves one second apart, the colours of its first two events repeating;
\* user 3 is a short log.
BoxMove(k) == IF k % 4 \in {1, 2} THEN <<1, 1>> ELSE <<-1, -1>>

ZigZagMove(k) == IF k % 2 = 1 THEN <<1, 0>> ELSE <<0, 1>>

AddContained ==
    /\ CountOf(1) < MaxContainedEvents
    /\ CountOf(2) = 0
    /\ \E dt \in {1, 50} :
          /\ (CountOf(1) = 0 => dt = 1)
          /\ (dt = 50 => CountSteps(1, LAMBDA st : st.dt = 50) < MaxSlowSteps)
          /\ AppendFor(1, dt, BoxMove(CountOf(1)), "red")

AddZigZag ==
    /\ CountOf(2) < MaxZigZagEvents
    /\ CountOf(1) > MIN_PIXELS
    /\ CountOf(3) = 0
    /\ \E c \in Colors :
          /\ (CountOf(2) >= 2 =>
                c = RowsOfUser(store, 2)[CountOf(2) - 1].color_name)
          /\ AppendFor(2, 1, ZigZagMove(CountOf(2)), c)

AddBystander ==
    /\ CountOf(3) < MaxBystanderEvents
    /\ CountOf(2) > MIN_PIXELS
    /\ AppendFor(3, 1, CycleMove(CountOf(3)), "red")

NextScenario == AddContained \/ AddZigZag \/ AddBystander \/ DetectBots

SpecScenario == Init /\ [][NextScenario]_vars

(***************************************************************************)
(* build_dynamic_zones: the heatmap, its percentile threshold, the hot     *)
(* cells marked on the canvas matrix and their connected components.       *)
(* Cells are pairs <<x, y>>.                                               *)
(***************************************************************************)
\* lf.group_by(["x", "y"]).agg(pl.len().alias("pixel_count"))
Heatmap(rows) ==
    LET cells == {<<rows[i].x, rows[i].y>> : i \in 1..Len(rows)}
    IN  {[x |-> c[1], y |-> c[2],
          pixel_count |-> Cardinality({i \in 1..Len(rows) :
                                          rows[i].x = c[1] /\ rows[i].y = c[2]})] :
            c \in cells}

\* The index round((n - 1) * 0.97) into the sorted counts, halves rounded up.
QuantileIndex(n) == (2 * ZONE_PERCENTILE * (n - 1) + 100) \div 200

\* heatmap["pixel_count"].quantile(0.97) with the default interpolation
\* "nearest": the element of index round((n - 1) * q) of the counts sorted
\* ascending (indices from 0), null on an empty column.
Quantile(heatmap) ==
    LET n == Cardinality(heatmap)
        idx == QuantileIndex(n)
        counts == {h.pixel_count : h \in heatmap}
        below(v) == Cardinality({h \in heatmap : h.pixel_count < v})
        upto(v) == Cardinality({h \in heatmap : h.pixel_count <= v})
    IN  IF n = 0 THEN Null
        ELSE <<CHOOSE v \in counts : below(v) <= idx /\ idx < upto(v)>>

HotOrEqual(pixel_count, threshold) == pixel_count >= threshold

\* pl.col("pixel_count") > threshold
Hot(pixel_count, threshold) == pixel_count > threshold

\* in_bounds_filter = (x < RPLACE_WIDTH) & (y < RPLACE_HEIGHT)
InBounds(x, y) == x < RPLACE_WIDTH /\ y < RPLACE_HEIGHT

\* heatmap.filter((pixel_count > threshold) & in_bounds_filter)
HotPixels(heatmap, threshold) ==
    {h \in heatmap : Hot(h.pixel_count, threshold) /\ InBounds(h.x, h.y)}

\* canvas_matrix[xs, ys] = 1: a negative index counts from the end of the
\* axis; an index below -size raises IndexError.
NpIndex(i, size) == IF i < 0 THEN i + size ELSE i

IndexRaises(i, size) == i < -size \/ i >= size

MarkedCells(hot) ==
    {<<NpIndex(h.x, RPLACE_WIDTH), NpIndex(h.y, RPLACE_HEIGHT)>> : h \in hot}

Adjacent4(c, d) == Abs(c[1] - d[1]) + Abs(c[2] - d[2]) = 1

\* generate_binary_structure(2, 2): the 8 neighbours of a cell.
Adjacent(c, d) == c /= d /\ Abs(c[1] - d[1]) <= 1 /\ Abs(c[2] - d[2]) <= 1

\* label(canvas_matrix, structure): the component of a marked cell.
RECURSIVE Grow(_, _)
Grow(S, cells) ==
    LET more == {d \in cells \ S : \E c \in S : Adjacent(c, d)}
    IN  IF more = {} THEN S ELSE Grow(S \cup more, cells)

Component(c, cells) == Grow({c}, cells)

\* label numbers the components 1, 2, ... in the order a scan of the matrix
\* along x, then y, meets them.
ScanBefore(c, d) == c[1] < d[1] \/ (c[1] = d[1] /\ c[2] < d[2])

FirstCell(S) == CHOOSE c \in S : \A d \in S \ {c} : ScanBefore(c, d)

\* np.where(labeled_array > 0) with labeled_array[active_xs, active_ys]
ZoneLookup(cells) ==
    LET comps == {Component(c, cells) : c \in cells}
        id(K) == 1 + Cardinality({L \in comps :
                                     ScanBefore(FirstCell(L), FirstCell(K))})
    IN  UNION {{[x |-> c[1], y |-> c[2], zone_id |-> id(K)] : c \in K} :
                 K \in comps}

\* build_dynamic_zones, lines 19-56.  raises: formatting a null threshold
\* or indexing the matrix out of range raises.
BuildDynamicZones(rows) ==
    LET heatmap == Heatmap(rows)
        threshold == Quantile(heatmap)
        hot_pixels == IF threshold = Null THEN {}
                      ELSE HotPixels(heatmap, threshold[1])
        raises == \/ threshold = Null
                  \/ \E h \in hot_pixels : \/ IndexRaises(h.x, RPLACE_WIDTH)
                                             \/ IndexRaises(h.y, RPLACE_HEIGHT)
        zone_lookup == IF raises THEN {} ELSE ZoneLookup(MarkedCells(hot_pixels))
    IN  [heatmap |-> heatmap, threshold |-> threshold,
         hot_pixels |-> hot_pixels, raises |-> raises,
         zone_lookup |-> zone_lookup,
         num_features |-> Cardinality({z.zone_id : z \in zone_lookup})]

\* detect_coordinated_botnets, lines 61-68: scan the file and build the map.
BuildZones ==
    /\ pc = "load"
    /\ attacks = <<>>
    /\ LET b == BuildDynamicZones(store)
       IN  IF b.raises
           THEN /\ printed' = printed \o <<"Building Activity Heatmap",
                                            "An unexpected error occurred">>
                /\ pc' = "error"
                /\ zones' = NoZones
           ELSE /\ printed' = printed \o <<"Building Activity Heatmap",
                                            "Zone Threshold",
                                            "Clustering Hot Zones",
                                            "Identified distinct high-traffic zones",
                                            "Scanning for synchronized bursts">>
                /\ pc' = "zoned"
                /\ zones' = <<b>>
    /\ UNCHANGED <<store, attacks, args, win, stats, bots, bursts, report>>

\* Heatmap logs: a background of cells with one event each, then events on
\* a few chosen cells, cell after cell, up to MaxPerCell on each.
BackgroundCell(i) == <<100 + 3 * i, 500>>

ChosenCells == <<(<<-1, 10>>), (<<10, 10>>), (<<11, 11>>), (<<12, 12>>),
                 (<<2000, 10>>)>>

CellCount(c) ==
    Cardinality({i \in 1..Len(store) : store[i].x = c[1] /\ store[i].y = c[2]})

LoadBackground ==
    /\ pc = "load"
    /\ attacks = <<>>
    /\ store = <<>>
    /\ store' = [i \in 1..BackgroundCells |->
                    Event(1, 0, BackgroundCell(i)[1], BackgroundCell(i)[2], "red")]
    /\ UNCHANGED <<attacks, pc, args, win, stats, printed, bots, bursts, zones, report>>

AddHot ==
    /\ pc = "load"
    /\ attacks = <<>>
    /\ store /= <<>>
    /\ \E k \in 1..Len(ChosenCells) :
          /\ CellCount(ChosenCells[k]) < MaxPerCell
          /\ \A j \in (k + 1)..Len(ChosenCells) : CellCount(ChosenCells[j]) = 0
          /\ store' = Append(store, Event(1, 0, ChosenCells[k][1],
                                          ChosenCells[k][2], "red"))
    /\ UNCHANGED <<attacks, pc, args, win, stats, printed, bots, bursts, zones, report>>

NextZones == LoadBackground \/ AddHot \/ BuildZones

SpecZones == Init /\ [][NextZones]_vars

(***************************************************************************)
(* detect_coordinated_botnets: the attack-seconds of the zones and the      *)
(* report of the bursts.                                                   *)
(***************************************************************************)
\* lf.join(lf_zones, on=["x", "y"], how="inner")
JoinZones(rows, lookup) ==
    LET zoneOf(r) == {z.zone_id : z \in {q \in lookup : q.x = r.x /\ q.y = r.y}}
        hit == SelectSeq(rows, LAMBDA r : zoneOf(r) /= {})
    IN  [i \in 1..Len(hit) |->
            [zone_id |-> CHOOSE z \in zoneOf(hit[i]) : TRUE,
             seconds_since_start |-> hit[i].seconds_since_start,
             user_id_int |-> hit[i].user_id_int]]

DenseOrEqual(zone_density) == zone_density >= DENSITY_THRESHOLD

\* pl.col("zone_density") > DENSITY_THRESHOLD
Dense(zone_density) == zone_density > DENSITY_THRESHOLD

\* group_by(["zone_id", "seconds_since_start"]).agg([len, user_id_int])
\* .filter(zone_density > DENSITY_THRESHOLD)
ZoneSeconds(rows, lookup) ==
    LET joined == JoinZones(rows, lookup)
        keys == {<<joined[i].zone_id, joined[i].seconds_since_start>> :
                    i \in 1..Len(joined)}
        group(k) == SelectSeq(joined, LAMBDA r :
                        r.zone_id = k[1] /\ r.seconds_since_start = k[2])
        users(g) == [i \in 1..Len(g) |-> g[i].user_id_int]
    IN  {AttackRow(k[1], k[2], Len(group(k)), users(group(k))) :
            k \in {q \in keys : Dense(Len(group(q)))}}

\* The orders in which a frame can hold the rows of a set.
Orderings(S) ==
    {f \in [1..Cardinality(S) -> S] :
        \A i \in 1..Cardinality(S), j \in 1..Cardinality(S) :
            i /= j => f[i] /= f[j]}

\* detect_coordinated_botnets, lines 73-87; a group_by fixes no row order.
SelectAttacks ==
    /\ pc = "zoned"
    /\ attacks' \in Orderings(ZoneSeconds(store, zones[1].zone_lookup))
    /\ pc' = "joined"
    /\ UNCHANGED <<store, args, win, stats, printed, bots, bursts, zones, report>>

\* pl.col("user_id_int").explode().unique()
UniqueUsers(rows) ==
    UNION {{rows[i].user_id_int[k] : k \in 1..Len(rows[i].user_id_int)} :
              i \in 1..Len(rows)}

RECURSIVE SumDensity(_)
SumDensity(rows) ==
    IF rows = <<>> THEN 0 ELSE rows[1].zone_density + SumDensity(Tail(rows))

RECURSIVE SumListLengths(_)
SumListLengths(rows) ==
    IF rows = <<>> THEN 0
    ELSE Len(rows[1].user_id_int) + SumListLengths(Tail(rows))

\* explode().unique().len()
UniqueBots(rows) == Cardinality(UniqueUsers(rows))

\* coordinated_events.group_by("unique_event_id").agg([...]), lines 116-126.
TopEventOf(ce, id) ==
    LET rows == SelectSeq(ce, LAMBDA r : r.unique_event_id = id)
        secs == {rows[i].seconds_since_start : i \in 1..Len(rows)}
    IN  [unique_event_id |-> id,
         zone_id |-> rows[1].zone_id,
         total_pixels |-> SumDensity(rows),
         unique_bots |-> UniqueBots(rows),
         start_sec |-> SetMin(secs),
         end_sec |-> SetMax(secs),
         active_seconds |-> Len(rows)]

EventIds(ce) == {ce[i].unique_event_id : i \in 1..Len(ce)}

\* The rows of the aggregation, one for each unique_event_id.
BurstTotals(ce) == {TopEventOf(ce, id) : id \in EventIds(ce)}

\* .sort("total_pixels", descending=True).limit(10): the sort fixes no order
\* among rows of equal total_pixels.
TopEvents(ce) ==
    LET groups == BurstTotals(ce)
    IN  {SubSeq(f, 1, IF Len(f) < TOP_LIMIT THEN Len(f) ELSE TOP_LIMIT) :
            f \in {g \in Orderings(groups) :
                      \A i \in 1..(Len(g) - 1) :
                          g[i].total_pixels >= g[i + 1].total_pixels}}

\* detect_coordinated_botnets, lines 116-171.
ReportBursts ==
    /\ pc = "clustered"
    /\ \E top_events \in TopEvents(bursts[1]) :
          report' = <<[top_events |-> top_events,
                       total_unique_bots |-> UniqueBots(bursts[1]),
                       distinct_bursts |-> Cardinality(EventIds(bursts[1]))]>>
    /\ printed' = printed \o <<"COORDINATED BOTNET REPORT",
                                "Unique Suspicious Users",
                                "Distinct Attack Bursts",
                                "TOP 10 COORDINATED ATTACK EVENTS">>
    /\ pc' = "bursts_reported"
    /\ UNCHANGED <<store, attacks, args, win, stats, bots, bursts, zones>>

\* Crowd logs: on top of the background, crowds of users place on one cell
\* in one second; the crowds are taken in the order of the list.
Crowds ==
    <<[cell |-> <<10, 10>>, t |-> 0, first |-> 1, n |-> 25],
      [cell |-> <<10, 10>>, t |-> 0, first |-> 26, n |-> 26],
      [cell |-> <<11, 11>>, t |-> 0, first |-> 1, n |-> 25],
      [cell |-> <<10, 10>>, t |-> 200, first |-> 1, n |-> 25],
      [cell |-> <<11, 11>>, t |-> 200, first |-> 20, n |-> 26],
      [cell |-> <<2000, 10>>, t |-> 0, first |-> 1, n |-> 51]>>

CrowdRows(c) ==
    [i \in 1..c.n |-> Event(c.first + i - 1, c.t, c.cell[1], c.cell[2], "red")]

HasCrowd(c) ==
    \E i \in 1..Len(store) :
        /\ store[i].x = c.cell[1] /\ store[i].y = c.cell[2]
        /\ store[i].seconds_since_start = c.t
        /\ store[i].user_id_int = c.first + c.n - 1

\* The rows of two files in file order, merged in file order: a row of a
\* moves back by the rows of b that sort before it, a row of b by the rows of
\* a that do not sort after it.
Merge(a, b) ==
    LET placed ==
            {<<i + Cardinality({j \in 1..Len(b) : ~UserTimeLE(a[i], b[j])}), a[i]>> :
                i \in 1..Len(a)}
            \cup
            {<<j + Cardinality({i \in 1..Len(a) : UserTimeLE(a[i], b[j])}), b[j]>> :
                j \in 1..Len(b)}
    IN  [p \in 1..(Len(a) + Len(b)) |-> (CHOOSE e \in placed : e[1] = p)[2]]

AddCrowd ==
    /\ pc = "load"
    /\ attacks = <<>>
    /\ store /= <<>>
    /\ \E k \in 1..Len(Crowds) :
          /\ k <= MaxCrowds
          /\ \A j \in k..Len(Crowds) : ~HasCrowd(Crowds[j])
          /\ store' = Merge(store, CrowdRows(Crowds[k]))
    /\ UNCHANGED <<attacks, pc, args, win, stats, printed, bots, bursts, zones, report>>

NextDensity ==
    \/ LoadBackground \/ AddCrowd \/ BuildZones \/ SelectAttacks
    \/ ClusterBursts \/ ReportBursts

SpecDensity == Init /\ [][NextDensity]_vars

\* Attack-seconds with crews: rows are taken in the order of (zone, second);
\* the crew of a row is users 1..51 or users 30..80.
CrewStarts == {1, 30}

LoadCrewAttack ==
    /\ pc \in {"load", "joined"}
    /\ store = <<>>
    /\ Len(attacks) < MaxCrewAttacks
    /\ \E z \in Zones, t \in AttackTimes, first \in CrewStarts :
          /\ \A i \in 1..Len(attacks) :
                /\ KeyLE(<<attacks[i].zone_id, attacks[i].seconds_since_start>>,
                         <<z, t>>)
                /\ <<attacks[i].zone_id, attacks[i].seconds_since_start>> /= <<z, t>>
          /\ attacks' = Append(attacks,
                AttackRow(z, t, DENSITY_THRESHOLD + 1,
                          Crew(first, DENSITY_THRESHOLD + 1)))
    /\ pc' = "joined"
    /\ UNCHANGED <<store, args, win, stats, printed, bots, bursts, zones, report>>

NextCrew == LoadCrewAttack \/ ClusterBursts \/ ReportBursts

SpecCrew == Init /\ [][NextCrew]_vars

\* Files without the color_name column: user 1 steps by 1 or 3 seconds
\* around the unit square.
BareEvent(u, t, x, y) ==
    [user_id_int |-> u, seconds_since_start |-> t, x |-> x, y |-> y]

AddBare ==
    /\ pc = "load"
    /\ attacks = <<>>
    /\ Len(store) < MaxBareEvents
    /\ \E dt \in {1, 3} :
          LET mv == CycleMove(Len(store))
          IN  store' = Append(store,
                  IF store = <<>> THEN BareEvent(1, 0, 10, 10)
                  ELSE BareEvent(1, store[Len(store)].seconds_since_start + dt,
                                 store[Len(store)].x + mv[1],
                                 store[Len(store)].y + mv[2]))
    /\ UNCHANGED <<attacks, pc, args, win, stats, printed, bots, bursts, zones, report>>

NextFault == AddBare \/ DetectBots

SpecFault == Init /\ [][NextFault]_vars

\* Files whose events lie on both sides of a window bound.
LoadSliced ==
    /\ pc = "load"
    /\ attacks = <<>>
    /\ Len(store) < MaxSlicedEvents
    /\ \E u \in Users, t \in SliceTimes :
          /\ KeepsFileOrder(store, Event(u, t, 0, 0, "red"))
          /\ store' = Append(store, Event(u, t, 0, 0, "red"))
    /\ UNCHANGED <<attacks, pc, args, win, stats, printed, bots, bursts, zones, report>>

NextSlice == LoadSliced \/ ParseArgs \/ ComputeStats \/ PrintReport

SpecSlice == Init /\ [][NextSlice]_vars

\* Logs with events of one second: user 1 walks around the unit square, each
\* event in the second of the previous one or in the next second.
AddTied ==
    /\ CountOf(1) < MaxTiedEvents
    /\ \E dt \in {0, 1} :
          /\ (CountOf(1) = 0 => dt = 1)
          /\ AppendFor(1, dt, CycleMove(CountOf(1)), "red")

NextTied == AddTied \/ DetectBots

SpecTied == Init /\ [][NextTied]_vars

(***************************************************************************)
(* Properties of analyze_rplace.                                           *)
(***************************************************************************)
HasStats == pc \in {"computed", "reported", "error"}

\* The rows of user u ordered by time, rows of equal time in frame order.
TimeOrdered(rows, u) ==
    LET idx == {i \in 1..Len(rows) : rows[i].user_id_int = u}
        RECURSIVE Ordered(_)
        Ordered(I) ==
            IF I = {} THEN <<>>
            ELSE LET m == CHOOSE i \in I : \A j \in I :
                            \/ rows[i].seconds_since_start < rows[j].seconds_since_start
                            \/ /\ rows[i].seconds_since_start = rows[j].seconds_since_start
                               /\ i <= j
                 IN  <<rows[m]>> \o Ordered(I \ {m})
    IN  Ordered(idx)

UserTimes(rows, w, u) ==
    LET mine == TimeOrdered(SelectSeq(rows, LAMBDA r :
                    r.seconds_since_start >= w.start_sec
                      /\ r.seconds_since_start < w.end_sec), u)
    IN  [i \in 1..Len(mine) |-> mine[i].seconds_since_start]

\* Number of gaps > 900 between consecutive entries of ts up to position i.
GapsUpTo(ts, i, gap) ==
    Cardinality({k \in 2..i : ts[k] - ts[k - 1] > gap})

\* C1: for every user, over the user's in-window events sorted by time, two
\* consecutive events are in one session iff their gap is <= 900, and the
\* session id is the running count of gaps > 900, restarting for each user.
C1_Sessionization ==
    HasStats =>
        \A u \in Users :
            LET sf == stats[1].session_frame
                mine == SelectSeq(sf, LAMBDA r : r.user_id_int = u)
                ts == UserTimes(store, win[1], u)
            IN  /\ Len(mine) = Len(ts)
                /\ \A i \in 1..Len(mine) :
                      /\ mine[i].seconds_since_start = ts[i]
                      /\ mine[i].session_id = GapsUpTo(ts, i, 900)
                /\ \A i \in 2..Len(mine) :
                      (mine[i].session_id = mine[i - 1].session_id)
                         <=> (ts[i] - ts[i - 1] <= 900)

\* A user whose events 950, 1850 stay in one session (gap 900) beside a user
\* whose events 950, 1851 fall in two sessions (gap 901).
C1_Witness ==
    /\ HasStats
    /\ LET sf == stats[1].session_frame
       IN  /\ Len(sf) = 4
           /\ sf[1] = [user_id_int |-> 1, seconds_since_start |-> 950, session_id |-> 0]
           /\ sf[2] = [user_id_int |-> 1, seconds_since_start |-> 1850, session_id |-> 0]
           /\ sf[3] = [user_id_int |-> 2, seconds_since_start |-> 950, session_id |-> 0]
           /\ sf[4] = [user_id_int |-> 2, seconds_since_start |-> 1851, session_id |-> 1]

\* The sessions of a time-sorted sequence: maximal index ranges <<i, j>> in
\* which every consecutive gap is <= 900.
MaximalRuns(ts, gap) ==
    {r \in (1..Len(ts)) \X (1..Len(ts)) :
        /\ r[1] <= r[2]
        /\ \A k \in (r[1] + 1)..r[2] : ts[k] - ts[k - 1] <= gap
        /\ (r[1] = 1 \/ ts[r[1]] - ts[r[1] - 1] > gap)
        /\ (r[2] = Len(ts) \/ ts[r[2] + 1] - ts[r[2]] > gap)}

RECURSIVE SumRunDur(_, _)
SumRunDur(ts, R) ==
    IF R = {} THEN 0
    ELSE LET r == CHOOSE q \in R : TRUE
         IN  (ts[r[2]] - ts[r[1]]) + SumRunDur(ts, R \ {r})

MultiRuns(u) ==
    LET ts == UserTimes(store, win[1], u)
    IN  {r \in MaximalRuns(ts, 900) : r[2] > r[1]}

RECURSIVE SumOverUsers(_)
SumOverUsers(U) ==
    IF U = {} THEN 0
    ELSE LET u == CHOOSE v \in U : TRUE
         IN  SumRunDur(UserTimes(store, win[1], u), MultiRuns(u)) + SumOverUsers(U \ {u})

RECURSIVE CountOverUsers(_)
CountOverUsers(U) ==
    IF U = {} THEN 0
    ELSE LET u == CHOOSE v \in U : TRUE
         IN  Cardinality(MultiRuns(u)) + CountOverUsers(U \ {u})

\* C2: the session summary is the arithmetic mean of (max t - min t) over
\* exactly the (user, session) groups with more than one event; a user with
\* one in-window event contributes no session.
C2_MeanOverMultiEventSessions ==
    HasStats =>
        /\ stats[1].session_data.n = CountOverUsers(Users)
        /\ stats[1].session_data.sum = SumOverUsers(Users)
        /\ stats[1].avg_session.n = CountOverUsers(Users)
        /\ stats[1].avg_session.sum = SumOverUsers(Users)
        /\ \A u \in Users :
              Len(UserTimes(store, win[1], u)) = 1 => MultiRuns(u) = {}

\* Two sessions of durations 900 and 1 are averaged while a later single
\* event of the second user is left out: mean (900 + 1) / 2.
C2_Witness ==
    /\ HasStats
    /\ UserTimes(store, win[1], 1) = <<950, 1850>>
    /\ UserTimes(store, win[1], 2) = <<1850, 1851>>
    /\ stats[1].avg_session = [sum |-> 901, n |-> 2]

C2_SingleEventWitness ==
    /\ HasStats
    /\ UserTimes(store, win[1], 1) = <<950, 1850>>
    /\ UserTimes(store, win[1], 2) = <<1851>>
    /\ stats[1].avg_session = [sum |-> 900, n |-> 1]

\* C3: when the window holds events but no session has more than one event,
\* the report is completed normally with a mean session duration of 0.
C3_ZeroMeanWhenNoSessionSurvives ==
    (pc \in {"reported", "error"} /\ CountOverUsers(Users) = 0) =>
        /\ pc = "reported"
        /\ stats[1].avg_session.n > 0
        /\ stats[1].avg_session.sum = 0

\* C5: a window that ends before it starts, a window that starts before the
\* event start, and unparseable date strings are refused with one message
\* before anything is scanned or computed.
BadDate(s) == s.hour > 23 \/ s.hour < 0 \/ s.day < 1 \/ s.day > 30

Earlier(a, b) == a.day < b.day \/ (a.day = b.day /\ a.hour < b.hour)

\* 2022-04-01 12:44:10 lies inside hour 12 of day 1.
BeforeEventStart(s) == s.day < 1 \/ (s.day = 1 /\ s.hour <= 12)

Refusals == {"Error parsing input dates",
             "Choose a start date after the event start", "Usage"}

C5_InvalidWindowRefused ==
    /\ (args /= NoArgs /\
          (\/ BadDate(args[1].start_str) \/ BadDate(args[1].end_str)
           \/ BeforeEventStart(args[1].start_str)
           \/ Earlier(args[1].end_str, args[1].start_str)))
        => pc = "rejected"
    /\ pc = "rejected" =>
          /\ stats = NoStats
          /\ win = NoWin
          /\ Len(printed) = 1
          /\ printed[1] \in Refusals

C5_Witness ==
    /\ pc = "rejected"
    /\ args /= NoArgs
    /\ ~BadDate(args[1].start_str) /\ ~BadDate(args[1].end_str)
    /\ ~BeforeEventStart(args[1].start_str)
    /\ Earlier(args[1].end_str, args[1].start_str)
    /\ printed = <<"Usage">>
    /\ store /= <<>>

(***************************************************************************)
(* Partition independence of the gap clustering.                           *)
(***************************************************************************)
SessionIdsOf(sf, u) ==
    LET mine == SelectSeq(sf, LAMBDA r : r.user_id_int = u)
    IN  [i \in 1..Len(mine) |-> mine[i].session_id]

BurstIdsOf(ce, z) ==
    LET mine == SelectSeq(ce, LAMBDA r : r.zone_id = z)
    IN  [i \in 1..Len(mine) |-> mine[i].burst_id]

\* C4: the cluster ids of key A's events are those of a run on an input that
\* holds key A's events alone, whatever events of other keys are present.
C4_PartitionIndependence ==
    /\ HasStats =>
          \A u \in Users :
              SessionIdsOf(stats[1].session_frame, u)
                = SessionIdsOf(SessionFrame(RowsOfUser(Window(store, win[1]), u)), u)
    /\ pc = "clustered" =>
          \A z \in Zones :
              BurstIdsOf(bursts[1], z)
                = BurstIdsOf(CoordinatedEvents(
                      SelectSeq(attacks, LAMBDA r : r.zone_id = z)), z)

\* Zone 2's attack-seconds 0 and 151 are clustered after those of zone 1.
C4_Witness ==
    /\ pc = "clustered"
    /\ \E i \in 1..Len(attacks) : attacks[i].zone_id = 1
    /\ BurstIdsOf(bursts[1], 2) = <<1, 2>>

C4_SessionWitness ==
    /\ HasStats
    /\ SessionIdsOf(stats[1].session_frame, 1) = <<0, 0>>
    /\ SessionIdsOf(stats[1].session_frame, 2) = <<0, 1>>

(***************************************************************************)
(* Properties of detect_bots.                                              *)
(***************************************************************************)
HasBots == pc = "bots_reported"

Flagged(u) ==
    \/ u \in bots[1].no_time_deviation
    \/ u \in bots[1].no_sleep
    \/ u \in bots[1].linear_placement
    \/ u \in bots[1].low_coordinate_deviation
    \/ u \in bots[1].mono_chromatic

ColorsOf(u) ==
    LET mine == RowsOfUser(store, u) IN {mine[i].color_name : i \in 1..Len(mine)}

Deltas(u) ==
    LET mine == TimeOrdered(store, u)
    IN  [i \in 1..(Len(mine) - 1) |->
            mine[i + 1].seconds_since_start - mine[i].seconds_since_start]

RECURSIVE Sum(_)
Sum(ds) == IF ds = <<>> THEN 0 ELSE ds[1] + Sum(Tail(ds))

SumSq(ds) == Sum([i \in 1..Len(ds) |-> ds[i] * ds[i]])

\* n * sum(d_i^2) - (sum d_i)^2
Dispersion(ds) == Len(ds) * SumSq(ds) - Sum(ds) * Sum(ds)

\* C7 as stated: an eligible user is flagged iff the population deviation
\* (divisor n) of the deltas is below 1: n*sum(d^2) - (sum d)^2 < n^2.
C7_PopulationDeviation ==
    HasBots =>
        \A u \in Users : CountOf(u) > 10 =>
            (u \in bots[1].no_time_deviation
               <=> Dispersion(Deltas(u)) < Len(Deltas(u)) * Len(Deltas(u)))

\* C7 amended: an eligible user is flagged iff the sample deviation (divisor
\* n - 1) of the deltas is below 1: n*sum(d^2) - (sum d)^2 < n*(n - 1).
C7_SampleDeviation ==
    HasBots =>
        \A u \in Users : CountOf(u) > 10 =>
            (u \in bots[1].no_time_deviation
               <=> Dispersion(Deltas(u)) < Len(Deltas(u)) * (Len(Deltas(u)) - 1))

\* Ten deltas, four of 3 seconds and six of 1: dispersion 96, population
\* variance 0.96, sample variance 96/90; the user is not flagged.
C7_Witness ==
    /\ HasBots
    /\ CountOf(1) = 11
    /\ Dispersion(Deltas(1)) = 96
    /\ 1 \notin bots[1].no_time_deviation

C7_FlaggedWitness ==
    /\ HasBots
    /\ CountOf(1) = 12
    /\ Dispersion(Deltas(1)) = 72
    /\ 1 \in bots[1].no_time_deviation

\* The distinct hour buckets of user u.
Buckets(u) ==
    LET mine == RowsOfUser(store, u)
    IN  {mine[i].seconds_since_start \div 3600 : i \in 1..Len(mine)}

RunFrom(B, h, len) == \A k \in 0..(len - 1) : (h + k) \in B

\* C8: an eligible user is flagged iff the user's distinct hour buckets
\* contain at least 24 consecutive integers.
C8_UptimeStreak ==
    HasBots =>
        \A u \in Users :
            u \in bots[1].no_sleep
              <=> (CountOf(u) > 10 /\ \E h \in Buckets(u) : RunFrom(Buckets(u), h, 24))

\* Two separate runs, the longer of exactly 24 buckets: flagged.
C8_Witness ==
    /\ HasBots
    /\ 1 \in bots[1].no_sleep
    /\ \E h \in Buckets(1) :
          /\ RunFrom(Buckets(1), h, 24)
          /\ (h - 1) \notin Buckets(1) /\ (h + 24) \notin Buckets(1)
          /\ \E g \in Buckets(1) : g < h - 1 \/ g > h + 24

\* A run of exactly 23 buckets beside a shorter one: not flagged.
C8_ShortRunWitness ==
    /\ HasBots
    /\ 1 \notin bots[1].no_sleep
    /\ CountOf(1) > 23
    /\ \E h \in Buckets(1) :
          /\ RunFrom(Buckets(1), h, 23)
          /\ (h - 1) \notin Buckets(1) /\ (h + 23) \notin Buckets(1)

\* Number of events of u, from the second onward, that lie exactly one cell
\* horizontally or vertically from the previous event.
UnitMoves(u) ==
    LET mine == TimeOrdered(store, u)
    IN  Cardinality({i \in 2..Len(mine) :
            Abs(mine[i].x - mine[i - 1].x) + Abs(mine[i].y - mine[i - 1].y) = 1})

\* C9 as stated: the linearity score is the number of unit moves divided by
\* the number of all the user's events, and the user is flagged iff it
\* exceeds 0.95.
C9_ScoreOverAllEvents ==
    HasBots =>
        \A u \in bots[1].users :
            /\ bots[1].linearity_score[u].sum * CountOf(u)
                  = UnitMoves(u) * bots[1].linearity_score[u].n
            /\ u \in bots[1].linear_placement
                  <=> 100 * UnitMoves(u) > 95 * CountOf(u)

\* C9 amended: the linearity score is the number of unit moves divided by the
\* number of moves (the events less the first, whose move is undefined), and
\* the user is flagged iff it exceeds 0.95.
C9_ScoreOverMoves ==
    HasBots =>
        \A u \in bots[1].users :
            /\ bots[1].linearity_score[u].n = CountOf(u) - 1
            /\ bots[1].linearity_score[u].sum = UnitMoves(u)
            /\ u \in bots[1].linear_placement
                  <=> 100 * UnitMoves(u) > 95 * (CountOf(u) - 1)

\* Eleven events, all ten moves unit moves: score 10/10, flagged.
C9_Witness ==
    /\ HasBots
    /\ CountOf(1) = 11
    /\ UnitMoves(1) = 10
    /\ 1 \in bots[1].users
    /\ bots[1].linearity_score[1] = [sum |-> 10, n |-> 10]
    /\ 1 \in bots[1].linear_placement

C10_FlaggedWitness ==
    /\ HasBots
    /\ 1 \in bots[1].users
    /\ bots[1].linearity_score[1] = [sum |-> 24, n |-> 25]
    /\ 1 \in bots[1].linear_placement


(***************************************************************************)
(* Properties of the spatial and colour classifiers of detect_bots.        *)
(***************************************************************************)
\* The cells of user u's events.
CellsOf(u) ==
    LET mine == RowsOfUser(store, u) IN {<<mine[i].x, mine[i].y>> : i \in 1..Len(mine)}

XRange(u) == SetMax({c[1] : c \in CellsOf(u)}) - SetMin({c[1] : c \in CellsOf(u)})

YRange(u) == SetMax({c[2] : c \in CellsOf(u)}) - SetMin({c[2] : c \in CellsOf(u)})

\* C11: an eligible user is flagged for spatial containment iff no two of the
\* user's events differ by more than 3 in x or by more than 3 in y; a range of
\* exactly 3 in both is flagged, a range of 4 in either is not.
C11_SpatialContainment ==
    HasBots =>
        \A u \in bots[1].users :
            /\ (u \in bots[1].low_coordinate_deviation) <=>
                  \A c \in CellsOf(u), d \in CellsOf(u) :
                      c[1] - d[1] <= 3 /\ c[2] - d[2] <= 3
            /\ (XRange(u) = 3 /\ YRange(u) = 3 => u \in bots[1].low_coordinate_deviation)
            /\ (XRange(u) = 4 \/ YRange(u) = 4 => u \notin bots[1].low_coordinate_deviation)

\* An eligible user whose events span exactly 3 in x and in y is flagged.
C11_Witness ==
    /\ HasBots
    /\ 1 \in bots[1].users
    /\ XRange(1) = 3 /\ YRange(1) = 3
    /\ 1 \in bots[1].low_coordinate_deviation

\* An eligible user whose events span 4 in x and 3 in y is not flagged.
C11_RangeFourWitness ==
    /\ HasBots
    /\ 1 \in bots[1].users
    /\ XRange(1) = 4 /\ YRange(1) = 3
    /\ 1 \notin bots[1].low_coordinate_deviation


\* The store with one more event of user u, of colour c, on u's last cell.
WithOneMore(u, c) ==
    Append(store, Event(u, LastOf(u).seconds_since_start + 1,
                        LastOf(u).x, LastOf(u).y, c))

\* C12 as stated: every user whose events have exactly one distinct colour is
\* flagged monochromatic, a user with exactly two events of one colour
\* included, and no other user is.
C12_AnyUserOfOneColor ==
    HasBots =>
        \A u \in UsersOf(store) :
            /\ (u \in bots[1].mono_chromatic) <=> (Cardinality(ColorsOf(u)) = 1)
            /\ (CountOf(u) = 2 /\ Cardinality(ColorsOf(u)) = 1
                   => u \in bots[1].mono_chromatic)

\* C12 amended: a user is flagged monochromatic iff the user has more than 10
\* events and exactly one distinct colour; one more event of another colour
\* un-flags a flagged user.
C12_EligibleUserOfOneColor ==
    HasBots =>
        \A u \in UsersOf(store) :
            /\ (u \in bots[1].mono_chromatic) <=>
                  (CountOf(u) > 10 /\ Cardinality(ColorsOf(u)) = 1)
            /\ (u \in bots[1].mono_chromatic =>
                  \A c \in Colors \ ColorsOf(u) :
                      u \notin MonoChromatic(ActiveRows(WithOneMore(u, c))))

\* User 1 has 11 red events and is flagged; user 2 has exactly two events,
\* both red, and is not.
C12_Witness ==
    /\ HasBots
    /\ CountOf(1) = 11 /\ ColorsOf(1) = {"red"}
    /\ CountOf(2) = 2 /\ ColorsOf(2) = {"red"}
    /\ 1 \in bots[1].mono_chromatic
    /\ 2 \notin bots[1].mono_chromatic

\* User 1 has 11 red events followed by one blue event and is not flagged.
C12_UnflaggedWitness ==
    /\ HasBots
    /\ CountOf(1) = 12 /\ ColorCount(1, "red") = 11
    /\ LastOf(1).color_name = "blue"
    /\ 1 \notin bots[1].mono_chromatic


\* The seconds between user u's first and last event.
TimeSpan(u) ==
    LET mine == TimeOrdered(store, u)
    IN  mine[Len(mine)].seconds_since_start - mine[1].seconds_since_start

\* User u's events are exactly 1 second apart and every move is a unit move
\* that turns at every step.
PerfectZigZag(u) ==
    LET st == StepsOf(u)
    IN  /\ \A i \in 1..Len(st) :
              st[i].dt = 1 /\ Abs(st[i].dx) + Abs(st[i].dy) = 1
        /\ \A i \in 2..Len(st) : st[i].dx /= st[i - 1].dx

\* C13: with user 1 placing 12 events of one colour inside a 3x3 box within 10
\* minutes, user 2 placing 15 events in a perfect zig-zag of unit moves 1
\* second apart and user 3 placing 5 events, exactly users 1 and 2 are
\* eligible, user 1 is flagged for spatial containment and colour monotony,
\* user 2 for linear movement and timing regularity, user 3 for nothing.
C13_EndToEndScenario ==
    (/\ HasBots
     /\ CountOf(1) = 12 /\ CountOf(2) = 15 /\ CountOf(3) = 5
     /\ XRange(1) <= 2 /\ YRange(1) <= 2
     /\ Cardinality(ColorsOf(1)) = 1
     /\ TimeSpan(1) <= 600
     /\ PerfectZigZag(2))
    => /\ bots[1].users = {1, 2}
       /\ 1 \in bots[1].low_coordinate_deviation
       /\ 1 \in bots[1].mono_chromatic
       /\ 2 \in bots[1].linear_placement
       /\ 2 \in bots[1].no_time_deviation
       /\ ~Flagged(3)

\* The scenario with irregular timing for user 1 and two colours for user 2:
\* each of users 1 and 2 carries exactly the two flags of the scenario.
C13_Witness ==
    /\ HasBots
    /\ CountOf(1) = 12 /\ CountOf(2) = 15 /\ CountOf(3) = 5
    /\ XRange(1) = 2 /\ YRange(1) = 2 /\ ColorsOf(1) = {"red"}
    /\ TimeSpan(1) = 60
    /\ PerfectZigZag(2) /\ ColorsOf(2) = Colors
    /\ bots[1].users = {1, 2}
    /\ bots[1].low_coordinate_deviation = {1}
    /\ bots[1].mono_chromatic = {1}
    /\ bots[1].linear_placement = {2}
    /\ bots[1].no_time_deviation = {2}
    /\ bots[1].no_sleep = {}


(***************************************************************************)
(* Properties of build_dynamic_zones.                                      *)
(***************************************************************************)
HasZones == pc \in {"zoned", "joined", "clustered", "nobursts", "bursts_reported"}
                /\ zones /= NoZones

ZoneCells(z) == {<<r.x, r.y>> : r \in {q \in zones[1].zone_lookup : q.zone_id = z}}

ZoneIds == {r.zone_id : r \in zones[1].zone_lookup}

\* C14: two cells of the zone mapping share a zone id iff hot cells chain
\* them by steps to one of the 8 neighbours: cells that touch, diagonally
\* included, share their zone id, no zone splits into two parts that do not
\* touch, and every cell has one zone id.
C14_EightConnectedZones ==
    HasZones =>
        LET lookup == zones[1].zone_lookup
        IN  /\ \A r \in lookup, q \in lookup :
                  /\ (r.x = q.x /\ r.y = q.y => r.zone_id = q.zone_id)
                  /\ (Abs(r.x - q.x) <= 1 /\ Abs(r.y - q.y) <= 1
                         => r.zone_id = q.zone_id)
            /\ \A z \in ZoneIds :
                  \A part \in (SUBSET ZoneCells(z)) \ {{}, ZoneCells(z)} :
                      \E c \in part, d \in ZoneCells(z) \ part :
                          Abs(c[1] - d[1]) <= 1 /\ Abs(c[2] - d[2]) <= 1

\* The hot cells (10,10), (11,11) and (12,12), each touching the next only
\* diagonally, are one zone.
C14_Witness ==
    /\ HasZones
    /\ zones[1].zone_lookup = {[x |-> 10, y |-> 10, zone_id |-> 1],
                                [x |-> 11, y |-> 11, zone_id |-> 1],
                                [x |-> 12, y |-> 12, zone_id |-> 1]}

\* The hot cells (10,10) and (12,12) do not touch and are two zones.
C14_SplitWitness ==
    /\ HasZones
    /\ zones[1].zone_lookup = {[x |-> 10, y |-> 10, zone_id |-> 1],
                                [x |-> 12, y |-> 12, zone_id |-> 2]}

\* The cells of the heatmap and of the zone mapping.
KnownCells ==
    {<<h.x, h.y>> : h \in zones[1].heatmap}
        \cup {<<r.x, r.y>> : r \in zones[1].zone_lookup}

MemberCells == {<<r.x, r.y>> : r \in zones[1].zone_lookup}

\* C15: a cell is in the zone mapping iff its own event count is greater
\* than the percentile threshold and it lies on the canvas, 0 <= x < 2000
\* and 0 <= y < 2000; a hot cell off the canvas adds no cell to the mapping.
C15_ZoneMembership ==
    HasZones =>
        \A c \in KnownCells :
            c \in MemberCells <=>
                /\ CellCount(c) > zones[1].threshold[1]
                /\ 0 <= c[1] /\ c[1] < 2000
                /\ 0 <= c[2] /\ c[2] < 2000

\* The same on files that hold no negative coordinate.
C15_MembershipWithoutNegatives ==
    (HasZones /\ \A i \in 1..Len(store) : store[i].x >= 0 /\ store[i].y >= 0)
        => \A c \in KnownCells :
              c \in MemberCells <=>
                  /\ CellCount(c) > zones[1].threshold[1]
                  /\ c[1] < 2000 /\ c[2] < 2000

\* A cell whose count equals the threshold and a hot cell at x = 2000 are not
\* in the mapping, beside a hot cell that is.
C15_ThresholdWitness ==
    /\ HasZones
    /\ zones[1].threshold = <<2>>
    /\ CellCount(<<10, 10>>) = 2 /\ <<10, 10>> \notin MemberCells
    /\ CellCount(<<11, 11>>) = 3 /\ <<11, 11>> \in MemberCells
    /\ CellCount(<<2000, 10>>) = 3 /\ <<2000, 10>> \notin MemberCells


(***************************************************************************)
(* Properties of detect_coordinated_botnets.                               *)
(***************************************************************************)
HasAttacks == HasZones /\ pc \in {"joined", "clustered", "nobursts", "bursts_reported"}

\* The number of events of second t on the member cells of zone z.
EventsIn(z, t) ==
    Cardinality({i \in 1..Len(store) :
                    /\ store[i].seconds_since_start = t
                    /\ <<store[i].x, store[i].y>> \in ZoneCells(z)})

SecondsOf(rows) == {rows[i].seconds_since_start : i \in 1..Len(rows)}

AttackKeys ==
    {<<attacks[i].zone_id, attacks[i].seconds_since_start>> : i \in 1..Len(attacks)}

HasBursts == pc \in {"clustered", "bursts_reported"}

\* The attack-seconds of zone z.
AttackSecondsOf(z) ==
    {attacks[i].seconds_since_start :
        i \in {j \in 1..Len(attacks) : attacks[j].zone_id = z}}

\* The burst that holds the attack-second t of zone z.
BurstOf(z, t) ==
    LET ce == bursts[1]
        i == CHOOSE j \in 1..Len(ce) :
                ce[j].zone_id = z /\ ce[j].seconds_since_start = t
    IN  ce[i].unique_event_id

\* Every gap between consecutive attack-seconds of zone z from t1 to t2 is at
\* most gap.
NoGapBetween(z, t1, t2, gap) ==
    \A a \in AttackSecondsOf(z), b \in AttackSecondsOf(z) :
        (/\ t1 <= a /\ a < b /\ b <= t2
         /\ ~\E c \in AttackSecondsOf(z) : a < c /\ c < b)
        => b - a <= gap

HasReport == pc = "bursts_reported"

\* The users that appear in an attack-second of burst id; of any burst.
ParticipantsOf(id) ==
    {u \in 1..100 :
        \E i \in 1..Len(bursts[1]) :
            /\ bursts[1][i].unique_event_id = id
            /\ \E k \in 1..Len(bursts[1][i].user_id_int) :
                  bursts[1][i].user_id_int[k] = u}

AllParticipants ==
    {u \in 1..100 :
        \E i \in 1..Len(attacks) :
            \E k \in 1..Len(attacks[i].user_id_int) : attacks[i].user_id_int[k] = u}

RECURSIVE SumUniqueBots(_)
SumUniqueBots(top) ==
    IF top = <<>> THEN 0 ELSE top[1].unique_bots + SumUniqueBots(Tail(top))

\* C18: a burst's unique-participant count is the number of distinct users
\* in its attack-seconds, the global count is the number of distinct users in
\* all attack-seconds, and the global count never exceeds the sum of the
\* per-burst counts.
C18_ParticipantsByUnion ==
    HasReport =>
        /\ \A i \in 1..Len(report[1].top_events) :
              report[1].top_events[i].unique_bots
                = Cardinality(ParticipantsOf(report[1].top_events[i].unique_event_id))
        /\ report[1].total_unique_bots = Cardinality(AllParticipants)
        /\ (Len(report[1].top_events) = report[1].distinct_bursts
               => report[1].total_unique_bots <= SumUniqueBots(report[1].top_events))

\* A burst of two attack-seconds with crews 1..51 and 30..80 counts 80
\* users, a second burst with crew 1..51 counts 51, and the global count is
\* 80.
C18_Witness ==
    /\ HasReport
    /\ Len(report[1].top_events) = 2
    /\ report[1].top_events[1].active_seconds = 2
    /\ report[1].top_events[1].unique_bots = 80
    /\ report[1].top_events[2].unique_bots = 51
    /\ report[1].total_unique_bots = 80


\* The partition of the attack-seconds into bursts: for each row its zone,
\* second and burst.
PartitionOf(ce) ==
    {<<ce[i].zone_id, ce[i].seconds_since_start, ce[i].unique_event_id>> :
        i \in 1..Len(ce)}

\* C19: a second run on the same file, whatever row order its group_by
\* yields, ends with the same zones, the same partition of the same
\* attack-seconds into bursts and the same totals of each burst as the run
\* that was made.
C19_SameBurstsOnRerun ==
    HasReport =>
        LET again == BuildDynamicZones(store)
        IN  /\ ~again.raises
            /\ again.zone_lookup = zones[1].zone_lookup
            /\ \A o \in Orderings(ZoneSeconds(store, again.zone_lookup)) :
                  /\ PartitionOf(CoordinatedEvents(o)) = PartitionOf(bursts[1])
                  /\ BurstTotals(CoordinatedEvents(o)) = BurstTotals(bursts[1])
                  /\ \A top \in TopEvents(CoordinatedEvents(o)) :
                        {top[i] : i \in 1..Len(top)}
                          = {report[1].top_events[i] :
                               i \in 1..Len(report[1].top_events)}

\* A run whose group_by yielded second 200 of zone 1 before second 0, and
\* which reported the two bursts of zone 1.
C19_Witness ==
    /\ HasReport
    /\ zones /= NoZones
    /\ Len(attacks) = 2
    /\ attacks[1].seconds_since_start = 200 /\ attacks[2].seconds_since_start = 0
    /\ report[1].distinct_bursts = 2
    /\ Len(report[1].top_events) = 2


\* No (zone, second) of the file has a density above the threshold.
NoDenseSecond ==
    ZoneSeconds(store, BuildDynamicZones(store).zone_lookup) = {}

\* The report of no burst.
ZeroReport ==
    <<[top_events |-> <<>>, total_unique_bots |-> 0, distinct_bursts |-> 0]>>

\* C20: when no (zone, second) is above the density threshold,
\* detect_coordinated_botnets ends outside its error branch with a report of
\* 0 users, 0 bursts and an empty burst list; when the window holds no
\* event, analyze_rplace ends outside its error branch with zero-valued
\* results.
C20_EmptyResultIsZeroReport ==
    /\ (pc \in {"nobursts", "bursts_reported", "error"} /\ args = NoArgs
           /\ NoDenseSecond)
        => (pc /= "error" /\ report = ZeroReport)
    /\ (pc \in {"nodata", "reported", "error"} /\ args /= NoArgs
           /\ Window(store, win[1]) = <<>>)
        => /\ pc /= "error"
           /\ stats /= NoStats
           /\ stats[1].avg_session = [sum |-> 0, n |-> 1]
           /\ stats[1].first_time_count = 0

\* What the code does in these cases: a file with events and no dense
\* second ends with the one notice and no report, an empty file ends in the
\* error branch, and an empty window ends with the one notice and no results.
C20_NoticeInsteadOfReport ==
    /\ (pc \in {"nobursts", "bursts_reported", "error"} /\ args = NoArgs
           /\ NoDenseSecond)
        => /\ report = NoReport
           /\ (store /= <<>> =>
                  /\ pc = "nobursts"
                  /\ printed[Len(printed)]
                        = "No botnet bursts found with current thresholds.")
           /\ (store = <<>> =>
                  /\ pc = "error"
                  /\ printed[Len(printed)] = "An unexpected error occurred")
    /\ (pc \in {"nodata", "reported", "error"} /\ args /= NoArgs
           /\ Window(store, win[1]) = <<>>)
        => /\ pc = "nodata"
           /\ stats = NoStats
           /\ printed = <<"No Data found in given timeframe">>

\* A file with 50 events of one second in its zone: the run ends with the
\* notice.
C20_NoBurstsWitness ==
    /\ pc = "nobursts"
    /\ zones /= NoZones
    /\ EventsIn(1, 0) = 50
    /\ attacks = <<>>

\* The run on the empty file ends in the error branch.
C20_EmptyFileWitness == pc = "error" /\ store = <<>> /\ args = NoArgs

\* A window with no event: analyze_rplace ends with the notice.
C20_EmptyWindowWitness == pc = "nodata" /\ store /= <<>>


\* The burst_id of the attack-second t of zone z.
BurstIdOf(z, t) ==
    LET ce == bursts[1]
        i == CHOOSE j \in 1..Len(ce) :
                ce[j].zone_id = z /\ ce[j].seconds_since_start = t
    IN  ce[i].burst_id

\* The number of gaps > gap between consecutive attack-seconds of zone z up
\* to second t.
GapsBefore(z, t, gap) ==
    Cardinality({b \in AttackSecondsOf(z) :
        /\ b <= t
        /\ \E a \in AttackSecondsOf(z) :
              /\ a < b /\ b - a > gap
              /\ ~\E c \in AttackSecondsOf(z) : a < c /\ c < b})

ZonesAttacked == {attacks[i].zone_id : i \in 1..Len(attacks)}

\* C22 as stated: in every zone the earliest attack-second has burst_id 0 and
\* the burst_id of an attack-second is the number of gaps > 150 between
\* consecutive attack-seconds of the zone up to it.
C22_BurstIdsFromZero ==
    HasBursts =>
        \A z \in ZonesAttacked :
            \A t \in AttackSecondsOf(z) : BurstIdOf(z, t) = GapsBefore(z, t, 150)

\* C22 amended: in every zone the earliest attack-second has burst_id 1 and
\* the burst_id of an attack-second is 1 plus the number of gaps > 150
\* between consecutive attack-seconds of the zone up to it.
C22_BurstIdsFromOne ==
    HasBursts =>
        \A z \in ZonesAttacked :
            /\ BurstIdOf(z, SetMin(AttackSecondsOf(z))) = 1
            /\ \A t \in AttackSecondsOf(z) :
                  BurstIdOf(z, t) = 1 + GapsBefore(z, t, 150)

\* Zone 1 with attack-seconds 0, 150 and 301 has burst ids 1, 1 and 2.
C22_Witness ==
    /\ HasBursts
    /\ AttackSecondsOf(1) = {0, 150, 301}
    /\ BurstIdOf(1, 0) = 1 /\ BurstIdOf(1, 150) = 1 /\ BurstIdOf(1, 301) = 2


(***************************************************************************)
(* Failures inside an analysis.                                            *)
(***************************************************************************)
\* detect_bots ran on a file that lacks only the color_name column, so that
\* only its colour classifier fails.
OnlyColourFails ==
    /\ pc \in {"error", "bots_reported"}
    /\ store /= <<>>
    /\ Columns(store) = {"user_id_int", "seconds_since_start", "x", "y"}

\* C21 as stated: a failure inside detect_bots is caught and reported, and
\* the classifiers that did not fail still have their results reported.
C21_OtherClassifiersReported ==
    OnlyColourFails =>
        /\ pc = "error"
        /\ printed[Len(printed)] = "An unexpected error occurred"
        /\ bots /= NoBots
        /\ bots[1].no_time_deviation = NoTimeDeviation(ActiveRows(store))
        /\ bots[1].low_coordinate_deviation = LowCoordinateDeviation(ActiveRows(store))

\* C21 amended: a failure inside detect_bots is caught at the boundary of
\* detect_bots and reported, the run ends there, and no classifier result is
\* reported, those of the classifiers that did not fail included.
C21_CaughtAtAnalysisBoundary ==
    OnlyColourFails =>
        /\ pc = "error"
        /\ printed = <<"An unexpected error occurred">>
        /\ bots = NoBots

\* A file without color_name on which user 1, with 11 events one second
\* apart, would be flagged by the timing classifier: the run ends in the
\* except branch.
C21_Witness ==
    /\ OnlyColourFails
    /\ pc = "error"
    /\ Len(store) = 11
    /\ 1 \in NoTimeDeviation(ActiveRows(store))


(***************************************************************************)
(* Sessions sliced by the window.                                          *)
(***************************************************************************)
\* The times of user u in the file, inside the window or not.
FileTimes(u) ==
    {store[i].seconds_since_start :
        i \in {j \in 1..Len(store) : store[j].user_id_int = u}}

\* The (user, session) groups the in-window events alone give: one per
\* maximal run of the user's in-window times with gaps <= 900.
WindowOnlyGroups ==
    UNION {{[user_id_int |-> u,
             session_id |-> GapsUpTo(UserTimes(store, win[1], u), r[1], 900),
             dur |-> UserTimes(store, win[1], u)[r[2]]
                        - UserTimes(store, win[1], u)[r[1]],
             p_count |-> r[2] - r[1] + 1]
               : r \in MaximalRuns(UserTimes(store, win[1], u), 900)}
           : u \in Users}

\* User u has an event before the window start at most 900 s before the
\* user's first in-window event.
SlicedAtStart(u) ==
    /\ Len(UserTimes(store, win[1], u)) > 0
    /\ \E t \in FileTimes(u) :
          /\ t < win[1].start_sec
          /\ UserTimes(store, win[1], u)[1] - t <= 900

\* C23: sessionization sees exactly the events with start_sec <= t < end_sec:
\* the sessions are those of the in-window events alone, a session sliced by
\* the window start has its duration measured from its first in-window
\* event, and a user with a single in-window event adds no session to the
\* mean.
C23_WindowedSessionization ==
    HasStats =>
        /\ \A i \in 1..Len(stats[1].session_frame) :
              /\ stats[1].session_frame[i].seconds_since_start >= win[1].start_sec
              /\ stats[1].session_frame[i].seconds_since_start < win[1].end_sec
        /\ stats[1].session_groups = WindowOnlyGroups
        /\ \A u \in Users :
              SlicedAtStart(u) =>
                 \E g \in stats[1].session_groups :
                    /\ g.user_id_int = u
                    /\ g.session_id = 0
                    /\ \E r \in MaximalRuns(UserTimes(store, win[1], u), 900) :
                          /\ r[1] = 1
                          /\ g.dur = UserTimes(store, win[1], u)[r[2]]
                                       - UserTimes(store, win[1], u)[1]
        /\ stats[1].session_data.n =
              Cardinality({g \in WindowOnlyGroups : g.p_count > 1})
        /\ \A u \in Users :
              Len(UserTimes(store, win[1], u)) = 1 =>
                 ~\E g \in stats[1].session_groups :
                     g.user_id_int = u /\ g.p_count > 1

\* Window [4550, 8150): user 1 has 4000 before the window and 4550, 4600
\* inside, reported as one session of 50 s; user 2 has 4549 before the
\* window and only 4550 inside, and adds nothing to the mean.
C23_Witness ==
    /\ HasStats
    /\ win[1].start_sec = 4550
    /\ FileTimes(1) = {4000, 4550, 4600}
    /\ FileTimes(2) = {4549, 4550}
    /\ SlicedAtStart(1)
    /\ SlicedAtStart(2)
    /\ stats[1].avg_session = [sum |-> 50, n |-> 1]

\* Window [950, 4550): an event at 4550, the window end, is left out.
C23_EndWitness ==
    /\ HasStats
    /\ win[1].end_sec = 4550
    /\ FileTimes(1) = {4000, 4549, 4550}
    /\ stats[1].avg_session = [sum |-> 549, n |-> 1]


(***************************************************************************)
(* The ranking of the burst report.                                        *)
(***************************************************************************)
Reported == {report[1].top_events[i] : i \in 1..Len(report[1].top_events)}

\* The reported list is cut to 10, non-increasing in total volume, and no
\* unreported burst has more volume than a reported one.
C24_RankedByVolume ==
    HasReport =>
        /\ Len(report[1].top_events) <= 10
        /\ \A i \in 1..(Len(report[1].top_events) - 1) :
              report[1].top_events[i].total_pixels
                 >= report[1].top_events[i + 1].total_pixels
        /\ \A g \in BurstTotals(bursts[1]) \ Reported :
              \A h \in Reported : g.total_pixels <= h.total_pixels

\* C24: for a fixed input the burst report is uniquely determined: at most
\* 10 bursts in non-increasing order of total volume, no unreported burst
\* above a reported one, and the list this run reports is the only list a
\* run on the same input can report, bursts of equal volume included.
C24_ReportUniquelyDetermined ==
    HasReport =>
        /\ C24_RankedByVolume
        /\ \A other \in TopEvents(bursts[1]) : other = report[1].top_events

\* Two bursts of equal volume 51, one in each zone, reported with the burst
\* of zone 2 first.
C24_TieWitness ==
    /\ HasReport
    /\ Len(report[1].top_events) = 2
    /\ report[1].top_events[1].unique_event_id = <<2, 1>>
    /\ report[1].top_events[2].unique_event_id = <<1, 1>>
    /\ report[1].top_events[1].total_pixels = report[1].top_events[2].total_pixels


(***************************************************************************)
(* The order of the stored rows.                                           *)
(***************************************************************************)
\* The same events stored with rows i and i + 1 exchanged.
SwapAt(rows, i) ==
    [k \in 1..Len(rows) |->
        IF k = i THEN rows[i + 1] ELSE IF k = i + 1 THEN rows[i] ELSE rows[k]]

\* Rows i and i + 1 belong to one user and one second.
TiedAt(rows, i) ==
    /\ i \in 1..(Len(rows) - 1)
    /\ rows[i].user_id_int = rows[i + 1].user_id_int
    /\ rows[i].seconds_since_start = rows[i + 1].seconds_since_start

\* The session of each (user, second) in the frame sf.
SessionAssignment(sf) ==
    {<<sf[i].user_id_int, sf[i].seconds_since_start, sf[i].session_id>> :
        i \in 1..Len(sf)}

\* Session ids and the timing flag are the same for the same events stored
\* with two rows of one user and one second exchanged.
C25_SessionsAndTimingOrderFree ==
    HasBots =>
        \A i \in 1..(Len(store) - 1) :
            TiedAt(store, i) =>
                /\ SessionAssignment(SessionFrame(SwapAt(store, i)))
                     = SessionAssignment(SessionFrame(store))
                /\ NoTimeDeviation(ActiveRows(SwapAt(store, i)))
                     = bots[1].no_time_deviation

\* C25: the results depend only on the set of events: for the same events
\* stored with two rows of one user and one second exchanged, each user's
\* session assignment, timing flag and linear-movement flag are the same.
C25_ResultsOrderFree ==
    HasBots =>
        \A i \in 1..(Len(store) - 1) :
            TiedAt(store, i) =>
                /\ SessionAssignment(SessionFrame(SwapAt(store, i)))
                     = SessionAssignment(SessionFrame(store))
                /\ NoTimeDeviation(ActiveRows(SwapAt(store, i)))
                     = bots[1].no_time_deviation
                /\ LinearPlacement(LinearityScores(ActiveRows(SwapAt(store, i))))
                     = bots[1].linear_placement

\* Twelve events of user 1 around the unit square, the third in the second
\* of the second: flagged as linear as stored, not flagged with the two
\* rows of second 1 exchanged.
C25_TieWitness ==
    /\ HasBots
    /\ Len(store) = 12
    /\ TiedAt(store, 2)
    /\ 1 \in bots[1].linear_placement
    /\ 1 \notin LinearPlacement(LinearityScores(ActiveRows(SwapAt(store, 2))))

====
